---- MODULE Spec2Model ----
(***************************************************************************)
(* Model of the WA gas dashboard data pipeline (src/data_fetcher.py):      *)
(* the on-disk CSV cache (fetch_csv/_download/_stale) and the pandas       *)
(* reconciliation pipeline (clean_nameplate, clean_mto,                    *)
(* build_supply_profile, build_demand_profile, get_model).                 *)
(*                                                                         *)
(* A DataFrame is a record [raised, cols, rows]: cols is the set of column *)
(* names, rows a sequence of functions from cols to cell values, raised    *)
(* tells that the call raised an exception instead of returning a frame.   *)
(* Numbers are integers, NaN is a distinguished integer.  A timestamp is   *)
(* a number of ticks, TicksPerDay ticks to the calendar day; NaT is a      *)
(* distinguished integer.                                                  *)
(***************************************************************************)
EXTENDS Integers, Sequences, FiniteSets, TLC

\* ------------------------------------------------------------------ bounds
MaxMtoRows  == 2      \* rows of the capacity-outlook source
MaxNpRows   == 2      \* rows of the nameplate source
MaxFlowRows == 2      \* rows of the flows source
MaxClock    == 4      \* last tick of the cache clock

\* -------------------------------------------------------------- encodings
TicksPerDay == 2          \* resolution of a timestamp: ticks per calendar day
NaN     == 0 - 1000       \* pandas NaN (missing number)
NaT     == 0 - 1          \* pandas NaT (unparseable date)
BadDate == 0 - 1          \* a CSV date cell that pd.to_datetime cannot parse

\* ------------------------------------------------------- pandas primitives
Frame(c, r) == [raised |-> FALSE, cols |-> c, rows |-> r]

\* pd.DataFrame(): what fetch_csv returns when the source is unavailable
EmptyFrame == Frame({}, <<>>)

\* a call that raised (KeyError on a missing column)
KeyError == [raised |-> TRUE, cols |-> {}, rows |-> <<>>]

\* DataFrame.empty: some axis has length 0
IsEmpty(df) == df.cols = {} \/ df.rows = <<>>

\* pd.to_datetime(..., errors="coerce") on one CSV date cell
ToDatetime(c) == IF c = BadDate THEN NaT ELSE c * TicksPerDay

\* calendar day of a timestamp
DayOf(ts) == ts \div TicksPerDay

\* Series.fillna(other) on one cell
FillNa(v, other) == IF v = NaN THEN other ELSE v

\* a - b on one cell (NaN propagates)
Minus(a, b) == IF a = NaN \/ b = NaN THEN NaN ELSE a - b

RECURSIVE SumSkipNa(_, _)
\* Series.sum() over column c of rows (NaN cells are skipped, empty sum is 0)
SumSkipNa(rows, c) ==
    IF rows = <<>> THEN 0
    ELSE (IF Head(rows)[c] = NaN THEN 0 ELSE Head(rows)[c]) + SumSkipNa(Tail(rows), c)

Min(S) == CHOOSE x \in S : \A y \in S : x <= y

RECURSIVE SortedSeq(_)
\* the group keys of a groupby, in ascending order
SortedSeq(S) == IF S = {} THEN <<>> ELSE <<Min(S)>> \o SortedSeq(S \ {Min(S)})

RECURSIVE LastPresent(_, _)
\* the same loop without its break: the last candidate present wins
LastPresent(candidates, columns) ==
    IF candidates = <<>> THEN ""
    ELSE IF LastPresent(Tail(candidates), columns) # "" THEN LastPresent(Tail(candidates), columns)
    ELSE IF Head(candidates) \in columns THEN Head(candidates)
    ELSE ""

RECURSIVE FirstPresent(_, _)
\* for col in candidates: if col in columns: ... break   ("" when none matches)
FirstPresent(candidates, columns) ==
    IF candidates = <<>> THEN ""
    ELSE IF Head(candidates) \in columns THEN Head(candidates)
    ELSE FirstPresent(Tail(candidates), columns)

RECURSIVE Concat(_)
\* concatenation of a sequence of sequences
Concat(ss) == IF ss = <<>> THEN <<>> ELSE Head(ss) \o Concat(Tail(ss))

\* df.groupby(key)[val].sum().reset_index(), val renamed to out
GroupSum(rows, key, val, out) ==
    LET keys == SortedSeq({rows[i][key] : i \in DOMAIN rows})
    IN  [k \in DOMAIN keys |->
            (key :> keys[k]) @@
            (out :> SumSkipNa(SelectSeq(rows, LAMBDA r : r[key] = keys[k]), val))]

\* ------------------------------------------------------------ the cleaners
NameplateCols == {"FacilityName", "TJ_Nameplate"}
MtoCols       == {"FacilityName", "GasDay", "TJ_Available"}
SupplyCols    == {"FacilityName", "GasDay", "TJ_Available", "TJ_Nameplate"}
DemandCols    == {"GasDay", "TJ_Demand"}
ModelCols     == {"GasDay", "TJ_Demand", "TJ_Available", "Shortfall"}

production_variants == {"production", "Production", "PRODUCTION", "prod"}

NameplateCapacityCandidates == <<"capacityquantity", "capacity", "nameplaterating">>
MtoDateCandidates           == <<"fromgasdate", "gasdate", "date">>
MtoCapacityCandidates       == <<"outlookquantity", "capacity", "quantity">>
FlowsDateCandidates         == <<"gasdate", "date", "gasday">>

\* prod_mask of one row: the class column is compared by exact membership
ProdMask(df, r) == "facilitytype" \in df.cols /\ r["facilitytype"] \in production_variants

ProdRows(df) == SelectSeq(df.rows, LAMBDA r : ProdMask(df, r))

clean_nameplate(df) ==
    LET prod == ProdRows(df)
        capacity_col == FirstPresent(NameplateCapacityCandidates, df.cols)
    IN  IF prod = <<>> THEN Frame(NameplateCols, <<>>)
        ELSE IF capacity_col = "" THEN Frame(NameplateCols, <<>>)
        ELSE IF "facilityname" \notin df.cols THEN KeyError
        ELSE Frame(NameplateCols,
                   [i \in DOMAIN prod |->
                       [FacilityName |-> prod[i]["facilityname"],
                        TJ_Nameplate |-> prod[i][capacity_col]]])

clean_mto(df) ==
    LET date_col     == FirstPresent(MtoDateCandidates, df.cols)
        capacity_col == FirstPresent(MtoCapacityCandidates, df.cols)
        prod == IF date_col = "" THEN <<>>
                ELSE SelectSeq(ProdRows(df), LAMBDA r : ToDatetime(r[date_col]) # NaT)
    IN  IF ProdRows(df) = <<>> THEN Frame(MtoCols, <<>>)
        ELSE IF date_col = "" THEN Frame(MtoCols, <<>>)
        ELSE IF capacity_col = "" THEN Frame(MtoCols, <<>>)
        ELSE IF "facilityname" \notin df.cols THEN KeyError
        ELSE Frame(MtoCols,
                   [i \in DOMAIN prod |->
                       [FacilityName |-> prod[i]["facilityname"],
                        GasDay       |-> ToDatetime(prod[i][date_col]),
                        TJ_Available |-> prod[i][capacity_col]]])

\* ------------------------------------------------------- the supply profile
Horizon == 30      \* periods=30 of the nameplate-only projection

\* the projection with its date range starting the day after now
NameplateProjectionTomorrow(nameplate, now) ==
    [j \in 1..(Len(nameplate.rows) * Horizon) |->
        LET facility == nameplate.rows[((j - 1) \div Horizon) + 1]
            date     == now + (((j - 1) % Horizon) + 1) * TicksPerDay
        IN  [FacilityName |-> facility.FacilityName,
             GasDay       |-> date,
             TJ_Available |-> facility.TJ_Nameplate,
             TJ_Nameplate |-> facility.TJ_Nameplate]]

\* pd.date_range(start=now, periods=30, freq='D') for every nameplate row
NameplateProjection(nameplate, now) ==
    [j \in 1..(Len(nameplate.rows) * Horizon) |->
        LET facility == nameplate.rows[((j - 1) \div Horizon) + 1]
            date     == now + ((j - 1) % Horizon) * TicksPerDay
        IN  [FacilityName |-> facility.FacilityName,
             GasDay       |-> date,
             TJ_Available |-> facility.TJ_Nameplate,
             TJ_Nameplate |-> facility.TJ_Nameplate]]

\* mto['TJ_Nameplate'] = mto['TJ_Available']
MtoOnly(mto) ==
    [i \in DOMAIN mto.rows |->
        [FacilityName |-> mto.rows[i].FacilityName,
         GasDay       |-> mto.rows[i].GasDay,
         TJ_Available |-> mto.rows[i].TJ_Available,
         TJ_Nameplate |-> mto.rows[i].TJ_Available]]

\* the rows one mto row gives in mto.merge(nameplate, on="FacilityName", how="left")
\* followed by TJ_Available.fillna(TJ_Nameplate)
MergeOne(m, nameplate) ==
    LET hits == SelectSeq(nameplate.rows, LAMBDA n : n.FacilityName = m.FacilityName)
    IN  IF hits = <<>>
        THEN << [FacilityName |-> m.FacilityName, GasDay |-> m.GasDay,
                 TJ_Available |-> FillNa(m.TJ_Available, NaN), TJ_Nameplate |-> NaN] >>
        ELSE [h \in DOMAIN hits |->
                [FacilityName |-> m.FacilityName, GasDay |-> m.GasDay,
                 TJ_Available |-> FillNa(m.TJ_Available, hits[h].TJ_Nameplate),
                 TJ_Nameplate |-> hits[h].TJ_Nameplate]]

MergeSupply(mto, nameplate) ==
    Concat([i \in DOMAIN mto.rows |-> MergeOne(mto.rows[i], nameplate)])

\* build_supply_profile after its two cleaners have returned
build_supply_profile(nameplate, mto, now) ==
    IF IsEmpty(nameplate) /\ IsEmpty(mto) THEN Frame(SupplyCols, <<>>)
    ELSE IF IsEmpty(mto) THEN Frame(SupplyCols, NameplateProjection(nameplate, now))
    ELSE IF IsEmpty(nameplate) THEN Frame(SupplyCols, MtoOnly(mto))
    ELSE Frame(SupplyCols, MergeSupply(mto, nameplate))

\* ------------------------------------------------------- the demand profile
build_demand_profile(flows) ==
    LET date_col == FirstPresent(FlowsDateCandidates, flows.cols)
        parsed   == [i \in DOMAIN flows.rows |->
                        [flows.rows[i] EXCEPT ![date_col] = ToDatetime(@)]]
        kept     == SelectSeq(parsed, LAMBDA r : r[date_col] # NaT)
        grouped  == GroupSum(kept, date_col, "demand", "TJ_Demand")
    IN  IF date_col = "" THEN Frame(DemandCols, <<>>)
        ELSE IF "demand" \in flows.cols
        THEN Frame(DemandCols,
                   [i \in DOMAIN grouped |->
                       [GasDay |-> grouped[i][date_col], TJ_Demand |-> grouped[i].TJ_Demand]])
        ELSE Frame(DemandCols, <<>>)

\* ----------------------------------------------------------- the daily model
\* dem['TJ_Available'] = 0 ; dem['Shortfall'] = dem['TJ_Available'] - dem['TJ_Demand']
DemandOnlyModel(dem) ==
    Frame(ModelCols,
          [i \in DOMAIN dem.rows |->
              [GasDay       |-> dem.rows[i].GasDay,
               TJ_Demand    |-> dem.rows[i].TJ_Demand,
               TJ_Available |-> 0,
               Shortfall    |-> Minus(0, dem.rows[i].TJ_Demand)]])

\* sup.groupby("GasDay")["TJ_Available"].sum().reset_index()
TotalSupply(sup) == GroupSum(sup.rows, "GasDay", "TJ_Available", "TJ_Available")

\* the TJ_Available cell the left merge gives the demand row of day g (NaN: no match)
MergedAvailable(total_supply, g) ==
    IF \E k \in DOMAIN total_supply : total_supply[k].GasDay = g
    THEN total_supply[CHOOSE k \in DOMAIN total_supply : total_supply[k].GasDay = g].TJ_Available
    ELSE NaN

\* Shortfall taken from the merged column before it is zero-filled
ModelRowUnfilled(d, merged) ==
    [GasDay       |-> d.GasDay,
     TJ_Demand    |-> d.TJ_Demand,
     TJ_Available |-> FillNa(merged, 0),
     Shortfall    |-> Minus(merged, d.TJ_Demand)]

\* model['TJ_Available'].fillna(0), then Shortfall from the filled column
ModelRow(d, merged) ==
    [GasDay       |-> d.GasDay,
     TJ_Demand    |-> d.TJ_Demand,
     TJ_Available |-> FillNa(merged, 0),
     Shortfall    |-> Minus(FillNa(merged, 0), d.TJ_Demand)]

JoinedModel(sup, dem) ==
    Frame(ModelCols,
          [i \in DOMAIN dem.rows |->
              ModelRow(dem.rows[i], MergedAvailable(TotalSupply(sup), dem.rows[i].GasDay))])

\* ==================================================================== state
VARIABLES
    nameplate_df,   \* fetch_csv("nameplate") as read by build_supply_profile
    mto_df,         \* fetch_csv("mto_future")
    flows_df,       \* fetch_csv("flows")
    now,            \* pd.Timestamp.now() of the run, in ticks
    pc,             \* position of the run inside get_model
    nameplate,      \* clean_nameplate's result
    mto,            \* clean_mto's result
    sup,            \* build_supply_profile's result
    dem,            \* build_demand_profile's result
    model,          \* the second frame get_model returns
    cache,          \* data_cache/: key -> [exists, bytes, mtime]
    clock,          \* datetime.utcnow(), in ticks
    lastCall,       \* what the latest fetch_csv call did
    memo,           \* st.cache_data's entry for load_real_data
    appPc,          \* position of the current run of the app.py script (0: none)
    lastRun         \* what the latest script run did

pipeVars  == <<nameplate_df, mto_df, flows_df, now, pc, nameplate, mto, sup, dem, model>>
cacheVars == <<cache, clock, lastCall>>
appVars   == <<memo, appPc, lastRun>>
vars      == <<nameplate_df, mto_df, flows_df, now, pc, nameplate, mto, sup, dem, model,
               cache, clock, lastCall, memo, appPc, lastRun>>

\* ------------------------------------------------------------ source tables
\* The cell a source row holds under column c.  The k-th candidate name of a
\* field carries the base value shifted by k-1 (days for a date, tens for a
\* quantity), so that two candidate columns of one table never agree.
RECURSIVE PosIn(_, _)
PosIn(c, candidates) ==
    IF candidates = <<>> THEN 0
    ELSE IF Head(candidates) = c THEN 1
    ELSE IF PosIn(c, Tail(candidates)) = 0 THEN 0 ELSE 1 + PosIn(c, Tail(candidates))

DateCell(base, k) == IF base = BadDate THEN BadDate ELSE base + (k - 1)
QtyCell(base, k)  == IF base = NaN THEN NaN ELSE base + 10 * (k - 1)

NameplateRow(cols, type, name, cap) ==
    [c \in cols |->
        IF c = "facilitytype" THEN type
        ELSE IF c = "facilityname" THEN name
        ELSE QtyCell(cap, PosIn(c, NameplateCapacityCandidates))]

MtoRow(cols, type, name, day, qty) ==
    [c \in cols |->
        IF c = "facilitytype" THEN type
        ELSE IF c = "facilityname" THEN name
        ELSE IF PosIn(c, MtoDateCandidates) > 0 THEN DateCell(day, PosIn(c, MtoDateCandidates))
        ELSE QtyCell(qty, PosIn(c, MtoCapacityCandidates))]

FlowsRow(cols, day, qty, zone) ==
    [c \in cols |->
        IF c = "zone" THEN zone
        ELSE IF c = "demand" THEN qty
        ELSE DateCell(day, PosIn(c, FlowsDateCandidates))]

\* sequences over S of length at most n
SeqUpTo(S, n) == UNION {[1..k -> S] : k \in 0..n}

\* the column names the sources publish today
NameplateSchema == {"facilitytype", "facilityname", "capacityquantity"}
MtoSchema       == {"facilitytype", "facilityname", "fromgasdate", "outlookquantity"}
FlowsSchema     == {"gasdate", "demand", "zone"}

\* spellings of the class label met in the sources
FacilityTypes == {"production", "Production", "PROD", " production ", "pipeline"}

\* the market-wide zone of the dashboard, and another one
MarketZone == "WA"
OtherZone  == "EAST"

NameplateRowOpts ==
    { NameplateRow(NameplateSchema, "production", "A", 80),
      NameplateRow(NameplateSchema, "production", "B", 60),
      NameplateRow(NameplateSchema, "pipeline",   "C", 70) }

MtoRowOpts ==
    { MtoRow(MtoSchema, "production", n, d, q) : n \in {"A", "B"}, d \in {1, 2}, q \in {100, 50} }
    \cup { MtoRow(MtoSchema, "production", "A", BadDate, 100),
           MtoRow(MtoSchema, "production", "A", 1, NaN),
           MtoRow(MtoSchema, "pipeline",   "C", 1, 100) }

FlowsRowOpts ==
    { FlowsRow(FlowsSchema, d, q, z) : d \in {1, 2, BadDate}, q \in {30, 40}, z \in {MarketZone, OtherZone} }

DefaultNameplate == Frame(NameplateSchema, << NameplateRow(NameplateSchema, "production", "A", 80) >>)
DefaultMto       == Frame(MtoSchema, << MtoRow(MtoSchema, "production", "A", 1, 100) >>)
DefaultFlows     == Frame(FlowsSchema, << FlowsRow(FlowsSchema, 1, 30, MarketZone),
                                         FlowsRow(FlowsSchema, 2, 40, MarketZone) >>)

\* the same sources after a revision renamed their columns
RenamedNameplateSchema == {"facilitytype", "facilityname", "capacity", "nameplaterating"}
RenamedMtoSchema       == {"facilitytype", "facilityname", "gasdate", "date", "capacity", "quantity"}

RenamedNameplate ==
    Frame(RenamedNameplateSchema, << NameplateRow(RenamedNameplateSchema, "production", "A", 80) >>)
RenamedMto ==
    Frame(RenamedMtoSchema, << MtoRow(RenamedMtoSchema, "production", "A", 1, 100) >>)

\* the run starts on calendar day 1, at midnight or later in the day
Nows == {TicksPerDay, TicksPerDay + 1}

\* runs that vary the rows of the two capacity sources
SupplyInputs ==
    /\ nameplate_df \in {Frame(NameplateSchema, r) : r \in SeqUpTo(NameplateRowOpts, MaxNpRows)}
    /\ mto_df \in {Frame(MtoSchema, r) : r \in SeqUpTo(MtoRowOpts, MaxMtoRows)}
    /\ flows_df \in {DefaultFlows, EmptyFrame}
    /\ now \in Nows

\* runs that vary the rows of the flows source
DemandInputs ==
    /\ nameplate_df \in {DefaultNameplate, EmptyFrame}
    /\ mto_df \in {DefaultMto, EmptyFrame}
    /\ flows_df \in {Frame(FlowsSchema, r) : r \in SeqUpTo(FlowsRowOpts, MaxFlowRows)}
    /\ now \in Nows

\* runs that vary the columns one source publishes and the spelling of its class label
SchemaInputs ==
    \/ /\ nameplate_df \in
            { Frame(cols, << NameplateRow(cols, t1, "A", 80), NameplateRow(cols, t2, "B", 60) >>) :
                cols \in SUBSET ({"facilitytype", "facilityname"} \cup
                                 {NameplateCapacityCandidates[k] : k \in 1..3}),
                t1 \in FacilityTypes, t2 \in {"production", "pipeline"} }
       /\ mto_df = EmptyFrame
       /\ flows_df = DefaultFlows
       /\ now = TicksPerDay
    \/ /\ nameplate_df = DefaultNameplate
       /\ mto_df \in
            { Frame(cols, << MtoRow(cols, t1, "A", 1, 100) >>) :
                cols \in SUBSET ({"facilitytype", "facilityname"} \cup
                                 {MtoDateCandidates[k] : k \in 1..3} \cup
                                 {MtoCapacityCandidates[k] : k \in 1..3}),
                t1 \in FacilityTypes }
       /\ flows_df = DefaultFlows
       /\ now = TicksPerDay
    \/ /\ nameplate_df \in {DefaultNameplate, RenamedNameplate}
       /\ mto_df \in {DefaultMto, RenamedMto}
       /\ flows_df \in
            { Frame(cols, << FlowsRow(cols, 1, 30, MarketZone), FlowsRow(cols, 2, 40, MarketZone) >>) :
                cols \in SUBSET ({"demand", "zone"} \cup {FlowsDateCandidates[k] : k \in 1..3}) }
       /\ now = TicksPerDay

NoFrame == Frame({}, <<>>)

CacheKeys == {"flows", "mto_future", "nameplate"}

NoFile == [exists |-> FALSE, bytes |-> 0, mtime |-> 0]

NoCall == [key |-> "", force |-> FALSE, network |-> FALSE, failed |-> FALSE,
           before |-> NoFile, served |-> 0, at |-> 0, retry |-> FALSE, returned |-> 0, pending |-> {}]

CacheInit ==
    /\ cache = [k \in CacheKeys |-> NoFile]
    /\ clock = 0
    /\ lastCall = NoCall

NoMemo == [exists |-> FALSE, at |-> 0, data |-> [k \in CacheKeys |-> 0]]

NoRun == [button |-> FALSE, memoValid |-> FALSE, ran |-> FALSE, hit |-> FALSE,
          network |-> {}, fresh |-> {}]

AppIdle ==
    /\ memo = NoMemo
    /\ appPc = 0
    /\ lastRun = NoRun

PipeIdle ==
    /\ pc = "start"
    /\ nameplate = NoFrame /\ mto = NoFrame /\ sup = NoFrame /\ dem = NoFrame /\ model = NoFrame

Init ==
    /\ (SupplyInputs \/ DemandInputs \/ SchemaInputs)
    /\ PipeIdle
    /\ CacheInit
    /\ AppIdle

\* ------------------------------------------------------------------ get_model
\* build_supply_profile: nameplate = clean_nameplate(fetch_csv("nameplate"))
CleanNameplate ==
    /\ pc = "start"
    /\ nameplate' = clean_nameplate(nameplate_df)
    /\ pc' = IF nameplate'.raised THEN "raised" ELSE "nameplate"
    /\ UNCHANGED <<nameplate_df, mto_df, flows_df, now, mto, sup, dem, model>>
    /\ UNCHANGED cacheVars
    /\ UNCHANGED appVars

\* build_supply_profile: mto = clean_mto(fetch_csv("mto_future"))
CleanMto ==
    /\ pc = "nameplate"
    /\ mto' = clean_mto(mto_df)
    /\ pc' = IF mto'.raised THEN "raised" ELSE "mto"
    /\ UNCHANGED <<nameplate_df, mto_df, flows_df, now, nameplate, sup, dem, model>>
    /\ UNCHANGED cacheVars
    /\ UNCHANGED appVars

\* build_supply_profile: the four-way case split and its return
BuildSupply ==
    /\ pc = "mto"
    /\ sup' = build_supply_profile(nameplate, mto, now)
    /\ pc' = "supply"
    /\ UNCHANGED <<nameplate_df, mto_df, flows_df, now, nameplate, mto, dem, model>>
    /\ UNCHANGED cacheVars
    /\ UNCHANGED appVars

\* dem = build_demand_profile()
BuildDemand ==
    /\ pc = "supply"
    /\ dem' = build_demand_profile(flows_df)
    /\ pc' = "demand"
    /\ UNCHANGED <<nameplate_df, mto_df, flows_df, now, nameplate, mto, sup, model>>
    /\ UNCHANGED cacheVars
    /\ UNCHANGED appVars

\* if dem.empty: return sup, dem
ReturnNoDemand ==
    /\ pc = "demand"
    /\ IsEmpty(dem)
    /\ model' = dem
    /\ pc' = "done"
    /\ UNCHANGED <<nameplate_df, mto_df, flows_df, now, nameplate, mto, sup, dem>>
    /\ UNCHANGED cacheVars
    /\ UNCHANGED appVars

\* if sup.empty: the model is the demand with TJ_Available = 0
ReturnDemandOnly ==
    /\ pc = "demand"
    /\ ~IsEmpty(dem)
    /\ IsEmpty(sup)
    /\ model' = DemandOnlyModel(dem)
    /\ pc' = "done"
    /\ UNCHANGED <<nameplate_df, mto_df, flows_df, now, nameplate, mto, sup, dem>>
    /\ UNCHANGED cacheVars
    /\ UNCHANGED appVars

\* the daily totals of the supply, left-merged onto the demand
ReturnJoined ==
    /\ pc = "demand"
    /\ ~IsEmpty(dem)
    /\ ~IsEmpty(sup)
    /\ model' = JoinedModel(sup, dem)
    /\ pc' = "done"
    /\ UNCHANGED <<nameplate_df, mto_df, flows_df, now, nameplate, mto, sup, dem>>
    /\ UNCHANGED cacheVars
    /\ UNCHANGED appVars

Next ==
    \/ CleanNameplate
    \/ CleanMto
    \/ BuildSupply
    \/ BuildDemand
    \/ ReturnNoDemand
    \/ ReturnDemandOnly
    \/ ReturnJoined

Spec == Init /\ [][Next]_vars


\* ================================================================ the cache
\* what the upstream server can answer to requests.get
Outcomes == {"ok", "network_error", "http_error", "html"}

\* the CSV payloads the server can publish
Payloads == {1, 2}

\* what fetch_csv returns when it could not load the source: pd.DataFrame()
NoData == 0

\* (datetime.utcnow() - last_modified).days of a cached file
AgeDays(entry, t) == (t - entry.mtime) \div TicksPerDay

\* the staleness test with the threshold one day later
StaleAfterTwoDays(entry, t) == IF ~entry.exists THEN TRUE ELSE AgeDays(entry, t) > 1

\* _stale(path)
Stale(entry, t) == IF ~entry.exists THEN TRUE ELSE AgeDays(entry, t) > 0

\* a download that leaves the previous file in place when it fails
DownloadKeepsOld(entry, outcome, payload, t) ==
    IF outcome = "ok" THEN [exists |-> TRUE, bytes |-> payload, mtime |-> t] ELSE entry

\* the file _download leaves at data_cache/<fname>: the payload when the request
\* succeeds with CSV data, no file at all (os.remove) when anything fails
Download(entry, outcome, payload, t) ==
    IF outcome = "ok" THEN [exists |-> TRUE, bytes |-> payload, mtime |-> t] ELSE NoFile

\* fetch_csv(key, force): the file it leaves and the frame it returns
FetchedFile(entry, force, outcome, payload, t) ==
    IF force \/ Stale(entry, t) THEN Download(entry, outcome, payload, t) ELSE entry

FetchedData(entry, force, outcome, payload, t) ==
    IF FetchedFile(entry, force, outcome, payload, t).exists
    THEN FetchedFile(entry, force, outcome, payload, t).bytes
    ELSE NoData

FetchCsv(key, force, outcome, payload) ==
    /\ cache' = [cache EXCEPT ![key] = FetchedFile(cache[key], force, outcome, payload, clock)]
    /\ lastCall' = [key      |-> key,
                    force    |-> force,
                    network  |-> (force \/ Stale(cache[key], clock)),
                    failed   |-> ((force \/ Stale(cache[key], clock)) /\ outcome # "ok"),
                    before   |-> cache[key],
                    served   |-> payload,
                    at       |-> clock,
                    retry    |-> (key \in lastCall.pending),
                    returned |-> FetchedData(cache[key], force, outcome, payload, clock),
                    pending  |-> IF (force \/ Stale(cache[key], clock)) /\ outcome # "ok"
                                 THEN lastCall.pending \cup {key}
                                 ELSE lastCall.pending \ {key}]
    /\ UNCHANGED clock
    /\ UNCHANGED pipeVars
    /\ UNCHANGED appVars

\* time passes between two calls
Tick ==
    /\ clock < MaxClock
    /\ clock' = clock + 1
    /\ UNCHANGED <<cache, lastCall>>
    /\ UNCHANGED pipeVars
    /\ UNCHANGED appVars

FetchInit ==
    /\ nameplate_df = EmptyFrame /\ mto_df = EmptyFrame /\ flows_df = EmptyFrame
    /\ now = 0
    /\ PipeIdle
    /\ CacheInit
    /\ AppIdle

FetchNext ==
    \/ Tick
    \/ \E key \in CacheKeys, force \in BOOLEAN, outcome \in Outcomes, payload \in Payloads :
          FetchCsv(key, force, outcome, payload)

FetchSpec == FetchInit /\ [][FetchNext]_vars

\* ================================================================ properties
SupplyBuilt == pc \in {"supply", "demand", "done"}

SameKey(a, b) == a.FacilityName = b.FacilityName /\ a.GasDay = b.GasDay

\* C1: the supply table built from the cleaned capacity outlook has no two rows
\* with the same (FacilityName, GasDay), and each row's TJ_Available is the sum
\* of TJ_Available over the production outlook rows of its key (stated for
\* outlooks without missing quantities).
C1_SupplyDeduplicated ==
    (/\ SupplyBuilt /\ ~IsEmpty(mto)
     /\ \A k \in DOMAIN mto.rows : mto.rows[k].TJ_Available # NaN) =>
        /\ \A i, j \in DOMAIN sup.rows : SameKey(sup.rows[i], sup.rows[j]) => i = j
        /\ \A i \in DOMAIN sup.rows :
              sup.rows[i].TJ_Available =
                  SumSkipNa(SelectSeq(mto.rows, LAMBDA m : SameKey(m, sup.rows[i])), "TJ_Available")

\* C2: in every row of the DailyModel, on the demand-only path and on the
\* joined path, Shortfall is that row's TJ_Available minus that row's
\* TJ_Demand, TJ_Available being the final zero-filled value (never NaN).
C2_ShortfallIsDifference ==
    (pc = "done" /\ ~IsEmpty(dem)) =>
        \A i \in DOMAIN model.rows :
            /\ model.rows[i].TJ_Available # NaN
            /\ model.rows[i].Shortfall # NaN
            /\ model.rows[i].Shortfall = model.rows[i].TJ_Available - model.rows[i].TJ_Demand

\* C2 witness: a joined model with a day the supply covers and a day it does not
C2_Witness ==
    /\ pc = "done" /\ ~IsEmpty(dem) /\ ~IsEmpty(sup)
    /\ \E i, j \in DOMAIN model.rows :
          /\ model.rows[i].TJ_Available > 0 /\ model.rows[i].Shortfall > 0
          /\ model.rows[j].TJ_Available = 0 /\ model.rows[j].Shortfall < 0

\* the supply rows of the calendar day of timestamp g
SupplyOfDay(g) == SelectSeq(sup.rows, LAMBDA r : DayOf(r.GasDay) = DayOf(g))

\* C3: the DailyModel has exactly one row per GasDay of the demand and no
\* other day, each with the demand's TJ_Demand, and with TJ_Available the sum
\* of the supply's TJ_Available over the facilities on that day (0 when the
\* supply has nothing for that day).
C3_OneRowPerDemandDay ==
    (pc = "done" /\ ~IsEmpty(dem)) =>
        /\ Len(model.rows) = Cardinality({dem.rows[j].GasDay : j \in DOMAIN dem.rows})
        /\ \A i, j \in DOMAIN model.rows : model.rows[i].GasDay = model.rows[j].GasDay => i = j
        /\ \A i \in DOMAIN model.rows :
              /\ \E j \in DOMAIN dem.rows :
                    /\ dem.rows[j].GasDay = model.rows[i].GasDay
                    /\ dem.rows[j].TJ_Demand = model.rows[i].TJ_Demand
              /\ model.rows[i].TJ_Available =
                    SumSkipNa(SupplyOfDay(model.rows[i].GasDay), "TJ_Available")

\* C4: whatever columns the three sources lack, no stage raises: every stage
\* returns a frame (possibly empty) with the columns of its result.
C4_NoStageRaises ==
    /\ pc # "raised"
    /\ ~nameplate.raised /\ ~mto.raised /\ ~sup.raised /\ ~dem.raised /\ ~model.raised
    /\ (pc \notin {"start"}) => nameplate.cols = NameplateCols
    /\ (pc \notin {"start", "nameplate"}) => mto.cols = MtoCols
    /\ SupplyBuilt => sup.cols = SupplyCols
    /\ (pc \in {"demand", "done"}) => dem.cols = DemandCols

\* str.strip().lower() of a class label
Normalize(s) ==
    CASE s \in {"Production", "PRODUCTION", " production "} -> "production"
      [] s = "PROD" -> "prod"
      [] OTHER -> s

\* the rows of a source whose class label matches an accepted spelling once
\* case and surrounding whitespace are ignored
TolerantProdRows(df) ==
    IF "facilitytype" \notin df.cols THEN <<>>
    ELSE SelectSeq(df.rows,
                   LAMBDA r : Normalize(r["facilitytype"]) \in {Normalize(v) : v \in production_variants})

HasAny(candidates, cols) == \E k \in DOMAIN candidates : candidates[k] \in cols

\* C7: clean_nameplate and clean_mto keep exactly the rows whose facilitytype
\* matches the production class ignoring case and surrounding whitespace, no
\* row of another class, and nothing when the facilitytype column is absent.
C7_FilterIgnoresCaseAndSpace ==
    /\ (pc \notin {"start", "raised"}) =>
          /\ "facilitytype" \notin nameplate_df.cols => nameplate.rows = <<>>
          /\ (HasAny(NameplateCapacityCandidates, nameplate_df.cols) /\
              "facilityname" \in nameplate_df.cols) =>
                Len(nameplate.rows) = Len(TolerantProdRows(nameplate_df))
    /\ (pc \notin {"start", "nameplate", "raised"}) =>
          /\ "facilitytype" \notin mto_df.cols => mto.rows = <<>>
          /\ (/\ HasAny(MtoDateCandidates, mto_df.cols)
              /\ HasAny(MtoCapacityCandidates, mto_df.cols)
              /\ "facilityname" \in mto_df.cols
              /\ \A i \in DOMAIN mto_df.rows : \A c \in mto_df.cols :
                    PosIn(c, MtoDateCandidates) > 0 => mto_df.rows[i][c] # BadDate) =>
                Len(mto.rows) = Len(TolerantProdRows(mto_df))

\* c is the first name of candidates among cols
IsFirst(c, candidates, cols) ==
    \E k \in DOMAIN candidates :
        /\ candidates[k] = c
        /\ c \in cols
        /\ \A j \in 1..(k - 1) : candidates[j] \notin cols

\* frame df with its column old renamed to new
Rename(df, old, new) ==
    Frame((df.cols \ {old}) \cup {new},
          [i \in DOMAIN df.rows |->
              [c \in (df.cols \ {old}) \cup {new} |->
                  IF c = new THEN df.rows[i][old] ELSE df.rows[i][c]]])

\* C8: each canonical field is bound to the value of the first candidate name
\* present among the source's columns, whatever other candidates are present;
\* with no candidate present the stage returns its empty frame; a flows source
\* whose date column is gasday gives the demand profile it gives as gasdate.
C8_FirstSynonymBound ==
    /\ (pc \notin {"start", "raised"}) =>
          /\ ~HasAny(NameplateCapacityCandidates, nameplate_df.cols) =>
                nameplate = Frame(NameplateCols, <<>>)
          /\ \A c \in nameplate_df.cols :
                IsFirst(c, NameplateCapacityCandidates, nameplate_df.cols) =>
                    /\ Len(nameplate.rows) = Len(ProdRows(nameplate_df))
                    /\ \A i \in DOMAIN nameplate.rows :
                          nameplate.rows[i].TJ_Nameplate = ProdRows(nameplate_df)[i][c]
    /\ (pc \notin {"start", "nameplate", "raised"}) =>
          /\ (~HasAny(MtoDateCandidates, mto_df.cols) \/ ~HasAny(MtoCapacityCandidates, mto_df.cols)) =>
                mto = Frame(MtoCols, <<>>)
          /\ \A cd, cq \in mto_df.cols :
                (IsFirst(cd, MtoDateCandidates, mto_df.cols) /\
                 IsFirst(cq, MtoCapacityCandidates, mto_df.cols)) =>
                    LET kept == SelectSeq(ProdRows(mto_df), LAMBDA r : r[cd] # BadDate)
                    IN  /\ Len(mto.rows) = Len(kept)
                        /\ \A i \in DOMAIN mto.rows :
                              /\ mto.rows[i].GasDay = kept[i][cd] * TicksPerDay
                              /\ mto.rows[i].TJ_Available = kept[i][cq]
    /\ (pc \in {"demand", "done"}) =>
          /\ ~HasAny(FlowsDateCandidates, flows_df.cols) => dem = Frame(DemandCols, <<>>)
          /\ \A c \in flows_df.cols :
                (IsFirst(c, FlowsDateCandidates, flows_df.cols) /\ "demand" \in flows_df.cols) =>
                    {dem.rows[i].GasDay : i \in DOMAIN dem.rows} =
                        {flows_df.rows[i][c] * TicksPerDay : i \in DOMAIN flows_df.rows}
                            \ {BadDate * TicksPerDay}
          /\ ("gasday" \in flows_df.cols /\ "gasdate" \notin flows_df.cols /\ "date" \notin flows_df.cols) =>
                /\ dem = build_demand_profile(Rename(flows_df, "gasday", "gasdate"))
                /\ ("demand" \in flows_df.cols /\ flows_df.rows # <<>>) => ~IsEmpty(dem)

\* C8 witness: a finished run whose nameplate and outlook lack the first
\* candidate name and carry two later ones, and whose flows date is gasday
C8_Witness ==
    /\ pc = "done"
    /\ {"capacity", "nameplaterating"} \subseteq nameplate_df.cols
    /\ "capacityquantity" \notin nameplate_df.cols
    /\ {"gasdate", "date", "capacity", "quantity"} \subseteq mto_df.cols
    /\ "fromgasdate" \notin mto_df.cols
    /\ ~IsEmpty(nameplate) /\ ~IsEmpty(mto)
    /\ "gasday" \in flows_df.cols /\ "gasdate" \notin flows_df.cols /\ "date" \notin flows_df.cols
    /\ Len(dem.rows) = 2

\* C9: with an empty cleaned outlook and N cleaned nameplate rows the supply
\* has N x 30 rows: for each facility, in order, one row for each of 30
\* consecutive days from the current date, TJ_Available being its TJ_Nameplate.
C9_NameplateProjection ==
    (SupplyBuilt /\ IsEmpty(mto) /\ ~IsEmpty(nameplate)) =>
        /\ Len(sup.rows) = Len(nameplate.rows) * 30
        /\ \A i \in DOMAIN nameplate.rows : \A k \in 0..29 :
              LET r == sup.rows[(i - 1) * 30 + k + 1]
              IN  /\ r.FacilityName = nameplate.rows[i].FacilityName
                  /\ DayOf(r.GasDay) = DayOf(now) + k
                  /\ r.TJ_Available = nameplate.rows[i].TJ_Nameplate

\* C9 witness: a projection built for two facilities
C9_Witness ==
    /\ SupplyBuilt /\ IsEmpty(mto)
    /\ Len(nameplate.rows) = 2
    /\ nameplate.rows[1].FacilityName # nameplate.rows[2].FacilityName
    /\ Len(sup.rows) = 60

\* C10: TJ_Demand of a day is the sum of the demand of that day's flow rows
\* of the market-wide zone; rows of another zone do not contribute.
C10_DemandOfMarketZone ==
    (pc \in {"demand", "done"} /\ flows_df.cols = FlowsSchema) =>
        \A i \in DOMAIN dem.rows :
            dem.rows[i].TJ_Demand =
                SumSkipNa(SelectSeq(flows_df.rows,
                                    LAMBDA r : /\ r["gasdate"] # BadDate
                                               /\ r["gasdate"] * TicksPerDay = dem.rows[i].GasDay
                                               /\ r["zone"] = MarketZone),
                          "demand")

Called == lastCall.key # ""

\* age of the cached copy when the latest call was made, in ticks
AgeAtCall == lastCall.at - lastCall.before.mtime

\* C5 as stated: a call retrieves from the network exactly when there is no
\* cached copy, or force is set, or the copy is more than one day old.
C5_RetrievalIffOlderThanOneDay ==
    Called =>
        (lastCall.network <=>
            (~lastCall.before.exists \/ lastCall.force \/ AgeAtCall > TicksPerDay))

\* C5 amended: a call retrieves from the network exactly when there is no
\* cached copy, or force is set, or the copy is at least one full day old; a
\* successful retrieval overwrites the entry; without retrieval the entry is
\* untouched and its bytes are what the call returns.
C5_RetrievalIffOneDayOld ==
    Called =>
        /\ lastCall.network <=>
              (~lastCall.before.exists \/ lastCall.force \/ AgeAtCall >= TicksPerDay)
        /\ (lastCall.network /\ ~lastCall.failed) =>
              /\ cache[lastCall.key] = [exists |-> TRUE, bytes |-> lastCall.served, mtime |-> lastCall.at]
              /\ lastCall.returned = lastCall.served
        /\ ~lastCall.network =>
              /\ cache[lastCall.key] = lastCall.before
              /\ lastCall.returned = lastCall.before.bytes

\* C5 witness: an unforced call on a cached copy exactly one day old went to
\* the network and replaced the copy
C5_Witness ==
    /\ Called /\ ~lastCall.force /\ lastCall.before.exists
    /\ AgeAtCall = TicksPerDay
    /\ lastCall.network /\ ~lastCall.failed
    /\ cache[lastCall.key].bytes # lastCall.before.bytes

\* C6: after a failed download the key has no cache entry (the markup payload
\* is not stored, an older copy is removed) and the call returned an empty
\* table; the next call for that key goes to the network again.
C6_FailedDownloadRetried ==
    /\ (Called /\ lastCall.failed) =>
          /\ ~cache[lastCall.key].exists
          /\ lastCall.returned = NoData
    /\ \A k \in lastCall.pending : ~cache[k].exists
    /\ (Called /\ lastCall.retry) => lastCall.network

\* C6 witness: an unforced call, less than a day after the start, retries a key
\* whose previous download failed, and succeeds
C6_Witness ==
    /\ Called /\ lastCall.retry /\ ~lastCall.force
    /\ lastCall.at < TicksPerDay
    /\ lastCall.network /\ ~lastCall.failed
    /\ cache[lastCall.key].exists

\* ================================================================== the app
TtlSeconds    == 3600       \* @st.cache_data(ttl=3600)
SecondsPerDay == 86400      \* seconds in the day timedelta.days counts

\* st.cache_data still holds load_real_data's result at tick t
MemoValid(m, t) == m.exists /\ (t - m.at) * SecondsPerDay < TtlSeconds * TicksPerDay

\* the sources get_model reads, in the order of its fetch_csv(key) calls
GetModelKeys == <<"nameplate", "mto_future", "flows">>

\* the sources the sidebar's debug sections read after load_real_data
DebugKeys == <<"nameplate", "flows", "mto_future", "nameplate", "mto_future", "flows", "flows">>

\* the record of one fetch_csv(key, force) call made at tick t on file entry
CallRecord(prev, entry, key, force, outcome, payload, t) ==
    [key      |-> key,
     force    |-> force,
     network  |-> (force \/ Stale(entry, t)),
     failed   |-> ((force \/ Stale(entry, t)) /\ outcome # "ok"),
     before   |-> entry,
     served   |-> payload,
     at       |-> t,
     retry    |-> (key \in prev.pending),
     returned |-> FetchedData(entry, force, outcome, payload, t),
     pending  |-> IF (force \/ Stale(entry, t)) /\ outcome # "ok"
                  THEN prev.pending \cup {key}
                  ELSE prev.pending \ {key}]

\* a run of the script starts; the "Refresh AEMO Data" button, when it was
\* pressed, clears st.cache_data before load_real_data is called
ScriptStart(button) ==
    /\ appPc = 0
    /\ memo' = IF button THEN NoMemo ELSE memo
    /\ lastRun' = [button |-> button, memoValid |-> MemoValid(memo, clock),
                   ran |-> FALSE, hit |-> FALSE, network |-> {}, fresh |-> {}]
    /\ appPc' = 1
    /\ UNCHANGED cacheVars
    /\ UNCHANGED pipeVars

\* load_real_data() answered by st.cache_data: get_model is not called
LoadMemoHit ==
    /\ appPc = 1
    /\ MemoValid(memo, clock)
    /\ lastRun' = [lastRun EXCEPT !.hit = TRUE]
    /\ appPc' = 2
    /\ UNCHANGED memo
    /\ UNCHANGED cacheVars
    /\ UNCHANGED pipeVars

\* load_real_data() runs get_model: fetch_csv(key) for each source with the
\* default force=False, and st.cache_data keeps what it returned
LoadRunsPipeline(outcome, payload) ==
    /\ appPc = 1
    /\ ~MemoValid(memo, clock)
    /\ cache' = [k \in CacheKeys |-> FetchedFile(cache[k], FALSE, outcome[k], payload, clock)]
    /\ lastCall' =
          LET c1 == CallRecord(lastCall, cache[GetModelKeys[1]], GetModelKeys[1], FALSE,
                               outcome[GetModelKeys[1]], payload, clock)
              c2 == CallRecord(c1, cache[GetModelKeys[2]], GetModelKeys[2], FALSE,
                               outcome[GetModelKeys[2]], payload, clock)
          IN  CallRecord(c2, cache[GetModelKeys[3]], GetModelKeys[3], FALSE,
                         outcome[GetModelKeys[3]], payload, clock)
    /\ memo' = [exists |-> TRUE, at |-> clock,
                data |-> [k \in CacheKeys |->
                             FetchedData(cache[k], FALSE, outcome[k], payload, clock)]]
    /\ lastRun' = [lastRun EXCEPT
                      !.ran = TRUE,
                      !.network = {k \in CacheKeys : FALSE \/ Stale(cache[k], clock)},
                      !.fresh = {k \in CacheKeys : ~Stale(cache[k], clock)}]
    /\ appPc' = 2
    /\ UNCHANGED clock
    /\ UNCHANGED pipeVars

\* one fetch_csv(key, force=False) of the sidebar's debug sections; the script
\* run ends after the last of them
DebugFetch(outcome, payload) ==
    /\ appPc \in 2..(Len(DebugKeys) + 1)
    /\ cache' = [cache EXCEPT ![DebugKeys[appPc - 1]] =
                    FetchedFile(cache[DebugKeys[appPc - 1]], FALSE, outcome, payload, clock)]
    /\ lastCall' = CallRecord(lastCall, cache[DebugKeys[appPc - 1]], DebugKeys[appPc - 1],
                              FALSE, outcome, payload, clock)
    /\ appPc' = IF appPc = Len(DebugKeys) + 1 THEN 0 ELSE appPc + 1
    /\ UNCHANGED clock
    /\ UNCHANGED <<memo, lastRun>>
    /\ UNCHANGED pipeVars

\* time passes between two runs of the script (a run, bounded by the 40 s
\* request timeouts, is short against a tick)
Wait ==
    /\ appPc = 0
    /\ Tick

\* the answers of the server met during a script run: CSV data or an error page
AppOutcomes == {"ok", "html"}

AppNext ==
    \/ Wait
    \/ \E button \in BOOLEAN : ScriptStart(button)
    \/ LoadMemoHit
    \/ \E outcome \in [CacheKeys -> AppOutcomes], payload \in Payloads :
          LoadRunsPipeline(outcome, payload)
    \/ \E outcome \in AppOutcomes, payload \in Payloads : DebugFetch(outcome, payload)

AppSpec == FetchInit /\ [][AppNext]_vars

\* C11: the pipeline run that follows the manual refresh retrieves every
\* source from the network, also when the memoized result was still valid
\* and the cached files are fresh.
C11_RefreshRetrievesEverySource ==
    (lastRun.button /\ lastRun.ran) => lastRun.network = CacheKeys

====
